---- MODULE Spec2Model ----
(***************************************************************************)
(* State machine of the ReadwiseModal component                            *)
(* (src/components/ReadwiseModal.js): the fetch lifecycle, the drag        *)
(* interaction with requestAnimationFrame throttling, and the visibility   *)
(* of the overlay.                                                         *)
(*                                                                         *)
(* Scheduling model.  Handlers run to completion.  State writes made by a  *)
(* React event handler or by an effect are committed together; the state   *)
(* writes of a promise continuation are committed one by one (the          *)
(* continuation still runs to completion: nothing else is scheduled        *)
(* between its writes).  Passive effects (useEffect) run after the commit  *)
(* that scheduled them: at the latest before the next commit, and possibly *)
(* only after other tasks of the event loop (an animation frame, a window  *)
(* event) have run.                                                        *)
(***************************************************************************)
EXTENDS Integers, Sequences, FiniteSets

\* ---------------------------------------------------------------- bounds
\* the generated pointer events are at (i, MaxCoord - i), i in 0..MaxCoord
MaxCoord == 1
\* pointer-down events are generated only while |position| <= PosBound
PosBound == 1
\* requestAnimationFrame handles are 1..MaxFrames
MaxFrames == 2
\* the review endpoint returns at most MaxItems highlights
MaxItems == 2

\* ---------------------------------------------------------------- values
NoError == "null"
NoResp == [kind |-> "none"]
Origin == [x |-> 0, y |-> 0]

Points == {[x |-> i, y |-> MaxCoord - i] : i \in 0..MaxCoord}
Sub(p, q) == [x |-> p.x - q.x, y |-> p.y - q.y]
InBound(p) == /\ p.x >= -PosBound /\ p.x <= PosBound
              /\ p.y >= -PosBound /\ p.y <= PosBound

PointerTypes == {"mouse", "touch"}
Buttons == {0, 2}

\* a collection of n highlights is <<1, ..., n>>
Collection(n) == [i \in 1..n |-> i]
Collections == {Collection(n) : n \in 0..MaxItems}
\* what response.json() yields: a rejection (malformed JSON), the payload null,
\* a payload without a highlights list, or a payload with 0..MaxItems highlights
NoBody == [kind |-> "none"]
Bodies == [kind : {"malformed", "null", "nolist"}]
          \cup [kind : {"list"}, items : Collections]
\* the content-type header: absent, or one of these
ContentTypes == {"absent", "text/html", "application/json", "application/json; charset=utf-8"}
\* what fetch() yields: a rejection, or a response
Responses == {[kind |-> "networkError"]}
             \cup [kind : {"response"}, ok : BOOLEAN, ctype : ContentTypes]

VARIABLES
  enabled,        \* BLOG.READWISE_ENABLED
  apiKey,         \* BLOG.READWISE_API_KEY is set
  phase,          \* "premount": rendered, effects not run; "mounted"; "unmounted"
  mounted, highlights, currentIndex, isVisible, loading, error,
  position, isDragging, dragOffset,
  dragAnimationFrameRef,   \* 0 is null
  routerListener, \* handleRouteChange is registered on router.events
  winListeners,   \* the handlePointerMove/handlePointerUp closures on window
  effClosure,     \* the closure the drag effect last ran with
  effectPending,  \* the drag effect of the last commit has not run yet
  frames,         \* the scheduled animation frame callbacks
  nextFrame,      \* the handle the next requestAnimationFrame returns
  windowMoves,    \* the number of scheduling pointer-moves since the last frame ran
  lastMove,       \* the last of them
  calls,          \* the invocations of fetchAllHighlights that issued a request
  running         \* the call whose continuation is between two state writes

drag == <<position, isDragging, dragOffset, dragAnimationFrameRef, winListeners,
          effClosure, effectPending, frames, nextFrame, windowMoves, lastMove>>
fetchState == <<highlights, currentIndex, loading, error>>
config == <<enabled, apiKey>>
vars == <<enabled, apiKey, phase, mounted, highlights, currentIndex, isVisible,
          loading, error, position, isDragging, dragOffset, dragAnimationFrameRef,
          routerListener, winListeners, effClosure, effectPending, frames,
          nextFrame, windowMoves, lastMove, calls, running>>

NoMove == [kind |-> "none"]
Closure(d, o) == [isDragging |-> d, dragOffset |-> o]

Init ==
  /\ enabled \in BOOLEAN
  /\ apiKey \in BOOLEAN
  /\ phase = "premount"
  /\ mounted = FALSE
  /\ highlights = <<>>
  /\ currentIndex = 0
  /\ isVisible = TRUE
  /\ loading = TRUE
  /\ error = NoError
  /\ position = Origin
  /\ isDragging = FALSE
  /\ dragOffset = Origin
  /\ dragAnimationFrameRef = 0
  /\ routerListener = FALSE
  /\ winListeners = {}
  /\ effClosure = Closure(FALSE, Origin)
  /\ effectPending = FALSE
  /\ frames = {}
  /\ nextFrame = 1
  /\ windowMoves = 0
  /\ lastMove = NoMove
  /\ calls = <<>>
  /\ running = 0

\* ------------------------------------------------------------ rendering
\* the render guard: the component returns null unless all three hold
RenderGuard(m, en, vis) == m /\ en /\ vis
Rendered == phase = "mounted" /\ RenderGuard(mounted, enabled, isVisible)

ShowSpinner == loading
ShowError == error # NoError
highlight == IF currentIndex + 1 \in DOMAIN highlights THEN highlights[currentIndex + 1] ELSE 0
ShowHighlight == ~loading /\ error = NoError /\ highlight # 0

\* -------------------------------------------------- the drag effect
cancelAnimationFrame(F, id) == {f \in F : f.id # id}

\* cleanup of the previous run, then the body with the committed state
EffectListeners(L, prev, d, o) ==
  IF d THEN (L \ {prev}) \cup {Closure(d, o)}
       ELSE (L \ {prev}) \ {Closure(d, o)}
EffectFrames(F, ref) ==
  IF ref # 0 THEN cancelAnimationFrame(F, ref) ELSE F

\* the pending passive effect is flushed before a commit; the commit schedules
\* the effect again when its dependencies [isDragging, dragOffset] changed
Commit(F, depsChanged) ==
  /\ winListeners' = IF effectPending
                       THEN EffectListeners(winListeners, effClosure, isDragging, dragOffset)
                       ELSE winListeners
  /\ effClosure' = IF effectPending THEN Closure(isDragging, dragOffset) ELSE effClosure
  /\ frames' = IF effectPending THEN EffectFrames(F, dragAnimationFrameRef) ELSE F
  /\ effectPending' = depsChanged

FlushEffects ==
  /\ phase = "mounted" /\ running = 0
  /\ effectPending
  /\ Commit(frames, FALSE)
  /\ UNCHANGED <<config, phase, mounted, fetchState, isVisible, position, isDragging,
                 dragOffset, dragAnimationFrameRef, routerListener, nextFrame,
                 windowMoves, lastMove, calls, running>>

\* ------------------------------------------------------- fetch lifecycle
\* the error messages
MissingApiKey == "missing api key"
ApiRequestFailed == "api request failed"
ExpectedJson == "expected json"
NoHighlights == "no highlights"
FetchRejected == "fetch rejected"
JsonRejected == "json rejected"
NullPayload == "cannot read properties of null"

NewCall == [pc |-> "awaitFetch", resp |-> NoResp, body |-> NoBody]

\* faulty variant: the request is issued without looking at the key
fetchAllHighlightsNoKeyCheck(s) ==
  [s EXCEPT !.loading = TRUE, !.error = NoError, !.calls = Append(@, NewCall)]

\* fetchAllHighlights up to its first await, on s = [loading, error, calls]
fetchAllHighlights(s) ==
  IF ~apiKey
    THEN [s EXCEPT !.error = MissingApiKey, !.loading = FALSE]
    ELSE [s EXCEPT !.loading = TRUE, !.error = NoError, !.calls = Append(@, NewCall)]

\* faulty variant: the effect does not look at READWISE_ENABLED
MountEffectUnconditional(s, times) ==
  IF times = 1 THEN fetchAllHighlights(s)
  ELSE fetchAllHighlights(fetchAllHighlights(s))

\* faulty variant: the effect asks twice
MountEffectTwice(s, times) ==
  IF ~enabled THEN s
  ELSE fetchAllHighlights(fetchAllHighlights(s))

\* the mount effect: once, or twice when the effects are double-invoked
MountEffect(s, times) ==
  IF ~enabled THEN s
  ELSE IF times = 1 THEN fetchAllHighlights(s)
  ELSE fetchAllHighlights(fetchAllHighlights(s))

RunMount(times) ==
  /\ phase = "premount"
  /\ phase' = "mounted"
  /\ routerListener' = TRUE
  /\ mounted' = TRUE
  /\ LET s == MountEffect([loading |-> loading, error |-> error, calls |-> calls], times)
     IN /\ loading' = s.loading
        /\ error' = s.error
        /\ calls' = s.calls
  \* first run of the drag effect: isDragging is false, nothing to detach or cancel
  /\ winListeners' = EffectListeners(winListeners, effClosure, isDragging, dragOffset)
  /\ effClosure' = Closure(isDragging, dragOffset)
  /\ frames' = EffectFrames(frames, dragAnimationFrameRef)
  /\ effectPending' = FALSE
  /\ UNCHANGED <<config, highlights, currentIndex, isVisible, position, isDragging,
                 dragOffset, dragAnimationFrameRef, nextFrame, windowMoves, lastMove, running>>

Mount == RunMount(1)

\* React StrictMode (development): the mount effects run, are cleaned up and run again
MountStrict == RunMount(2)

IsJson(ctype) == ctype \in {"application/json", "application/json; charset=utf-8"}

\* faulty variant: response.ok is not looked at
ResponseErrorIgnoresStatus(r) ==
  IF r.kind = "networkError" THEN FetchRejected
  ELSE IF ~IsJson(r.ctype) THEN ExpectedJson
  ELSE NoError

\* lines 87-94 and the catch clause: the message thrown, or NoError
ResponseError(r) ==
  IF r.kind = "networkError" THEN FetchRejected
  ELSE IF ~r.ok THEN ApiRequestFailed
  ELSE IF ~IsJson(r.ctype) THEN ExpectedJson
  ELSE NoError

\* faulty variant: an empty list is stored like any other
BodyErrorAcceptsEmpty(b) ==
  IF b.kind = "malformed" THEN JsonRejected
  ELSE IF b.kind = "null" THEN NullPayload
  ELSE IF b.kind = "nolist" THEN NoHighlights
  ELSE NoError

\* lines 96-107: the message set, or NoError when the highlights are stored
BodyError(b) ==
  IF b.kind = "malformed" THEN JsonRejected
  ELSE IF b.kind = "null" THEN NullPayload
  ELSE IF b.kind = "nolist" THEN NoHighlights
  ELSE IF Len(b.items) > 0 THEN NoError
  ELSE NoHighlights

\* fetch() settles: the continuation runs to `await response.json()`, or writes
\* the error (the first of its two state writes)
FetchResolve(c, r) ==
  /\ running = 0
  /\ calls[c].pc = "awaitFetch"
  /\ IF ResponseError(r) = NoError
       THEN /\ calls' = [calls EXCEPT ![c].pc = "awaitJson", ![c].resp = r]
            /\ UNCHANGED <<error, running, winListeners, effClosure, frames, effectPending>>
       ELSE /\ calls' = [calls EXCEPT ![c].pc = "finally", ![c].resp = r]
            /\ error' = ResponseError(r)
            /\ running' = c
            /\ Commit(frames, FALSE)
  /\ UNCHANGED <<config, phase, mounted, highlights, currentIndex, loading, isVisible,
                 position, isDragging, dragOffset, dragAnimationFrameRef,
                 routerListener, nextFrame, windowMoves, lastMove>>

\* response.json() settles: setHighlights, or setError
JsonResolve(c, b) ==
  /\ running = 0
  /\ calls[c].pc = "awaitJson"
  /\ running' = c
  /\ IF BodyError(b) = NoError
       THEN /\ highlights' = b.items
            /\ calls' = [calls EXCEPT ![c].pc = "setIndex", ![c].body = b]
            /\ UNCHANGED error
       ELSE /\ error' = BodyError(b)
            /\ calls' = [calls EXCEPT ![c].pc = "finally", ![c].body = b]
            /\ UNCHANGED highlights
  /\ Commit(frames, FALSE)
  /\ UNCHANGED <<config, phase, mounted, currentIndex, loading, isVisible, position,
                 isDragging, dragOffset, dragAnimationFrameRef, routerListener,
                 nextFrame, windowMoves, lastMove>>

\* setCurrentIndex(0)
StepSetIndex ==
  /\ running # 0
  /\ calls[running].pc = "setIndex"
  /\ currentIndex' = 0
  /\ calls' = [calls EXCEPT ![running].pc = "finally"]
  /\ Commit(frames, FALSE)
  /\ UNCHANGED <<config, phase, mounted, highlights, loading, error, isVisible, position,
                 isDragging, dragOffset, dragAnimationFrameRef, routerListener,
                 nextFrame, windowMoves, lastMove, running>>

\* faulty variant: loading is not cleared
StepFinallyKeepsLoading ==
  /\ running # 0
  /\ calls[running].pc = "finally"
  /\ calls' = [calls EXCEPT ![running] = [pc |-> "done", resp |-> NoResp, body |-> NoBody]]
  /\ running' = 0
  /\ Commit(frames, FALSE)
  /\ UNCHANGED <<config, phase, mounted, highlights, currentIndex, error, loading,
                 isVisible, position, isDragging, dragOffset, dragAnimationFrameRef,
                 routerListener, nextFrame, windowMoves, lastMove>>

\* finally: setLoading(false); the continuation ends
StepFinally ==
  /\ running # 0
  /\ calls[running].pc = "finally"
  /\ loading' = FALSE
  /\ calls' = [calls EXCEPT ![running] = [pc |-> "done", resp |-> NoResp, body |-> NoBody]]
  /\ running' = 0
  /\ Commit(frames, FALSE)
  /\ UNCHANGED <<config, phase, mounted, highlights, currentIndex, error, isVisible,
                 position, isDragging, dragOffset, dragAnimationFrameRef,
                 routerListener, nextFrame, windowMoves, lastMove>>

\* ------------------------------------------------------------------ drag
\* handlePointerDown's filter: only the left button of a mouse is refused
AcceptsPointer(ptype, button) == ~(ptype = "mouse" /\ button # 0)

\* the offset handlePointerDown records
GrabOffset(client, pos) == [x |-> client.x - pos.x, y |-> client.y - pos.y]

\* the position the frame callback sets
FramePosition(client, offset) == [x |-> client.x - offset.x, y |-> client.y - offset.y]

\* onPointerDown on the overlay element
PointerDown(ptype, button, client) ==
  /\ Rendered /\ running = 0
  /\ InBound(position)
  /\ IF AcceptsPointer(ptype, button)
       THEN /\ isDragging' = TRUE
            /\ dragOffset' = GrabOffset(client, position)
            /\ Commit(frames, TRUE)
       ELSE UNCHANGED <<isDragging, dragOffset, winListeners, effClosure, frames,
                        effectPending>>
  /\ UNCHANGED <<config, phase, mounted, fetchState, isVisible, position,
                 dragAnimationFrameRef, routerListener, nextFrame, windowMoves, lastMove,
                 calls, running>>

\* faulty variant: the pending frame is left scheduled
CancelPendingNever(F, ref) == F

\* handlePointerMove cancels the frame the ref names before it schedules
CancelPending(F, ref) ==
  IF ref # 0 THEN cancelAnimationFrame(F, ref) ELSE F

\* a pointermove on window, delivered to the attached handlePointerMove closure
PointerMove(client) ==
  /\ running = 0
  /\ nextFrame <= MaxFrames
  /\ \E cl \in winListeners :
       IF ~cl.isDragging
         THEN UNCHANGED <<frames, dragAnimationFrameRef, nextFrame, windowMoves, lastMove>>
         ELSE /\ frames' = CancelPending(frames, dragAnimationFrameRef)
                             \cup {[id |-> nextFrame, client |-> client,
                                    dragOffset |-> cl.dragOffset]}
              /\ dragAnimationFrameRef' = nextFrame
              /\ nextFrame' = nextFrame + 1
              /\ windowMoves' = windowMoves + 1
              /\ lastMove' = [kind |-> "move", client |-> client,
                               dragOffset |-> cl.dragOffset]
  /\ UNCHANGED <<config, phase, mounted, fetchState, isVisible, position, isDragging,
                 dragOffset, routerListener, winListeners, effClosure, effectPending,
                 calls, running>>

\* the value handlePointerUp sets isDragging to
handlePointerUp == FALSE

\* a pointerup on window, delivered to the attached handlePointerUp closure
PointerUp ==
  /\ running = 0
  /\ winListeners # {}
  /\ isDragging' = handlePointerUp
  /\ IF isDragging' # isDragging
       THEN Commit(frames, TRUE)
       ELSE UNCHANGED <<winListeners, effClosure, frames, effectPending>>
  /\ UNCHANGED <<config, phase, mounted, fetchState, isVisible, position, dragOffset,
                 dragAnimationFrameRef, routerListener, nextFrame, windowMoves, lastMove,
                 calls, running>>

\* the browser runs the oldest scheduled frame callback: setPosition
FrameFire ==
  /\ running = 0
  /\ frames # {}
  /\ LET f == CHOOSE g \in frames : \A h \in frames : g.id <= h.id
     IN /\ position' = FramePosition(f.client, f.dragOffset)
        /\ Commit(frames \ {f}, FALSE)
  /\ windowMoves' = 0
  /\ lastMove' = NoMove
  /\ UNCHANGED <<config, phase, mounted, fetchState, isVisible, isDragging, dragOffset,
                 dragAnimationFrameRef, routerListener, nextFrame, calls, running>>

\* --------------------------------------------------- visibility, reselect
\* faulty variant: the handler toggles the flag
handleRouteChangeToggles == ~isVisible

\* faulty variant: the handler leaves the overlay alone during a drag
handleRouteChangeUnlessDragging == isDragging /\ isVisible

\* the value handleRouteChange and the close button set isVisible to
handleRouteChange == FALSE
closeButton == FALSE

\* faulty variant: hiding the overlay puts it back where it started
SetVisibleResetsPosition(v) ==
  /\ isVisible' = v
  /\ position' = IF v THEN position ELSE Origin
  /\ IF v # isVisible \/ position' # position
       THEN Commit(frames, FALSE)
       ELSE UNCHANGED <<winListeners, effClosure, frames, effectPending>>
  /\ UNCHANGED <<config, phase, mounted, fetchState, isDragging, dragOffset,
                 dragAnimationFrameRef, routerListener, nextFrame, windowMoves, lastMove,
                 calls, running>>

SetVisible(v) ==
  /\ isVisible' = v
  /\ IF v # isVisible
       THEN Commit(frames, FALSE)
       ELSE UNCHANGED <<winListeners, effClosure, frames, effectPending>>
  /\ UNCHANGED <<config, phase, mounted, fetchState, position, isDragging, dragOffset,
                 dragAnimationFrameRef, routerListener, nextFrame, windowMoves, lastMove,
                 calls, running>>

\* routeChangeStart from the router
RouteChangeStart ==
  /\ routerListener /\ running = 0
  /\ SetVisible(handleRouteChange)

\* a click on the close button
Dismiss ==
  /\ Rendered /\ running = 0
  /\ SetVisible(closeButton)

\* faulty variant: rounding up lets the index reach length
RandomIndicesInclusive(hs) == 0 .. Len(hs)

\* the indices Math.floor(Math.random() * length) can yield
RandomIndices(hs) == 0 .. (Len(hs) - 1)

\* faulty variant: the sequential pick (prev + 1) % length without the guard for
\* an empty list, where it yields NaN (here -1)
refreshHighlightSequentialUnguarded ==
  /\ Rendered /\ running = 0
  /\ currentIndex' = IF Len(highlights) = 0 THEN -1
                      ELSE (currentIndex + 1) % Len(highlights)
  /\ Commit(frames, FALSE)
  /\ UNCHANGED <<config, phase, mounted, highlights, loading, error, isVisible, position,
                 isDragging, dragOffset, dragAnimationFrameRef, routerListener,
                 nextFrame, windowMoves, lastMove, calls, running>>

\* faulty variant: the click also clears the error
refreshHighlightClearsError ==
  /\ Rendered /\ running = 0
  /\ error' = NoError
  /\ IF Len(highlights) = 0
       THEN UNCHANGED currentIndex
       ELSE \E i \in RandomIndices(highlights) : currentIndex' = i
  /\ Commit(frames, FALSE)
  /\ UNCHANGED <<config, phase, mounted, highlights, loading, isVisible, position,
                 isDragging, dragOffset, dragAnimationFrameRef, routerListener,
                 nextFrame, windowMoves, lastMove, calls, running>>

\* faulty variant: the click drops the highlight shown and shows the next
refreshHighlightRemovesCurrent ==
  /\ Rendered /\ running = 0
  /\ Len(highlights) > 1
  /\ highlights' = SubSeq(highlights, 1, Len(highlights) - 1)
  /\ currentIndex' = 0
  /\ Commit(frames, FALSE)
  /\ UNCHANGED <<config, phase, mounted, loading, error, isVisible, position,
                 isDragging, dragOffset, dragAnimationFrameRef, routerListener,
                 nextFrame, windowMoves, lastMove, calls, running>>

\* a click on the refresh button
refreshHighlight ==
  /\ Rendered /\ running = 0
  /\ IF Len(highlights) = 0
       THEN UNCHANGED <<currentIndex, winListeners, effClosure, frames, effectPending>>
       ELSE \E i \in RandomIndices(highlights) :
              /\ currentIndex' = i
              /\ IF i # currentIndex
                   THEN Commit(frames, FALSE)
                   ELSE UNCHANGED <<winListeners, effClosure, frames, effectPending>>
  /\ UNCHANGED <<config, phase, mounted, highlights, loading, error, isVisible, position,
                 isDragging, dragOffset, dragAnimationFrameRef, routerListener,
                 nextFrame, windowMoves, lastMove, calls, running>>

\* the component is removed: the pending effect is flushed, the cleanups run
Unmount ==
  /\ phase = "mounted" /\ running = 0
  /\ phase' = "unmounted"
  /\ routerListener' = FALSE
  /\ LET L == IF effectPending
                THEN EffectListeners(winListeners, effClosure, isDragging, dragOffset)
                ELSE winListeners
         c == IF effectPending THEN Closure(isDragging, dragOffset) ELSE effClosure
     IN /\ winListeners' = L \ {c}
        /\ effClosure' = c
  /\ frames' = EffectFrames(frames, dragAnimationFrameRef)
  /\ effectPending' = FALSE
  /\ UNCHANGED <<config, mounted, fetchState, isVisible, position, isDragging, dragOffset,
                 dragAnimationFrameRef, nextFrame, windowMoves, lastMove, calls, running>>

\* ------------------------------------------------------- specifications
Next ==
  \/ Mount
  \/ Unmount
  \/ FlushEffects
  \/ \E c \in DOMAIN calls, r \in Responses : FetchResolve(c, r)
  \/ \E c \in DOMAIN calls, b \in Bodies : JsonResolve(c, b)
  \/ StepSetIndex
  \/ StepFinally
  \/ \E t \in PointerTypes, b \in Buttons, p \in Points : PointerDown(t, b, p)
  \/ \E p \in Points : PointerMove(p)
  \/ PointerUp
  \/ FrameFire
  \/ RouteChangeStart
  \/ Dismiss
  \/ refreshHighlight

Spec == Init /\ [][Next]_vars

\* with the development double invocation of the mount effects
NextStrict == Next \/ MountStrict

SpecStrict == Init /\ [][NextStrict]_vars

\* the continuation of a settled promise runs (the microtask queue is drained),
\* and, as the premise of the liveness claim, every request settles
SpecLive ==
  /\ Spec
  /\ WF_vars(StepSetIndex)
  /\ WF_vars(StepFinally)
  /\ WF_vars(\E c \in DOMAIN calls, r \in Responses : FetchResolve(c, r))
  /\ WF_vars(\E c \in DOMAIN calls, b \in Bodies : JsonResolve(c, b))

\* ================================================================ claims
ExactlyOne(a, b, c) == (a /\ ~b /\ ~c) \/ (~a /\ b /\ ~c) \/ (~a /\ ~b /\ c)
Ready == ~loading /\ error = NoError /\ Len(highlights) > 0
Failed == ~loading /\ error # NoError
Reasons == {MissingApiKey, ApiRequestFailed, ExpectedJson, NoHighlights,
            FetchRejected, JsonRejected, NullPayload}
InFlight == {c \in DOMAIN calls : calls[c].pc \in {"awaitFetch", "awaitJson"}}

\* C1: once isVisible is false (close button or routeChangeStart), no step
\* makes it true again and the overlay is not rendered after any step.
C1_VisibilityMonotonic == [][~isVisible => (~isVisible' /\ ~Rendered')]_vars

\* C1 witness: the overlay is dismissed while mounted and enabled, after a drag
\* moved it and after the fetch completed.
C1_Witness ==
  /\ ~isVisible /\ phase = "mounted" /\ mounted /\ enabled
  /\ position # Origin /\ ~loading /\ frames = {} /\ ~isDragging

\* C2 (as claimed): once isDragging is false, position does not change until a
\* pointer-down is accepted again.
C2_NoMoveAfterPointerUp == [][~isDragging => position' = position]_vars

\* C3: at most one frame callback is scheduled at any time, the scheduled one
\* is that of the last pointer-move of the window, and a position that gets
\* committed is the one derived from that last pointer-move.
C3_FrameCoalescing ==
  /\ [](/\ Cardinality(frames) <= 1
        /\ \A f \in frames :
             /\ windowMoves > 0
             /\ lastMove.kind = "move"
             /\ f.client = lastMove.client
             /\ f.dragOffset = lastMove.dragOffset)
  /\ [][position' # position =>
          /\ lastMove.kind = "move"
          /\ position' = [x |-> lastMove.client.x - lastMove.dragOffset.x,
                          y |-> lastMove.client.y - lastMove.dragOffset.y]]_vars

\* C3 witness: two pointer-moves in one frame window, the second away from
\* where the overlay is, and one callback scheduled.
C3_Witness ==
  /\ windowMoves >= 2
  /\ Cardinality(frames) = 1
  /\ lastMove.kind = "move"
  /\ position # [x |-> lastMove.client.x - lastMove.dragOffset.x,
                 y |-> lastMove.client.y - lastMove.dragOffset.y]

\* C4 (as claimed): dragOffset does not change while isDragging stays true.
C4_AnchorFixedDuringGesture ==
  [][(isDragging /\ isDragging') => dragOffset' = dragOffset]_vars

\* C5 (as claimed): at most one request is in flight.
C5_AtMostOneInFlight == Cardinality(InFlight) <= 1

\* C6 (as claimed): after the unmount no step changes highlights, currentIndex,
\* error or loading.
C6_NoWriteAfterTeardown ==
  [][phase = "unmounted" =>
       (highlights' = highlights /\ currentIndex' = currentIndex
        /\ error' = error /\ loading' = loading)]_vars

\* C7 (as claimed): whenever the overlay is rendered, exactly one of spinner,
\* error text and highlight is shown.
C7_ExactlyOneShown == Rendered => ExactlyOne(ShowSpinner, ShowError, ShowHighlight)

\* C7 (amended): whenever the overlay is rendered and no fetch continuation is
\* between two of its state writes, exactly one of spinner, error text and
\* highlight is shown.
C7_ExactlyOneShownAtRest ==
  (Rendered /\ running = 0) => ExactlyOne(ShowSpinner, ShowError, ShowHighlight)

\* C7 witness: the overlay is rendered after a failed request and shows the
\* error text alone.
C7_Witness ==
  /\ Rendered /\ running = 0 /\ calls # <<>>
  /\ ShowError /\ ~ShowSpinner /\ ~ShowHighlight

\* C8: when the continuation of a request ends, the state is Ready with the
\* returned list and index 0 exactly when the response was ok, declared JSON,
\* parsed and carried a non-empty list; otherwise it is Failed with a reason.
C8_FetchOutcomeMapping ==
  [][(running # 0 /\ running' = 0) =>
       LET c == calls[running]
           good == /\ c.resp.kind = "response"
                   /\ c.resp.ok
                   /\ c.resp.ctype \in {"application/json",
                                        "application/json; charset=utf-8"}
                   /\ c.body.kind = "list"
                   /\ Len(c.body.items) > 0
       IN IF good
            THEN Ready' /\ highlights' = c.body.items /\ currentIndex' = 0
            ELSE Failed' /\ ~Ready' /\ error' \in Reasons]_vars

\* C8 witness: a request ended in Ready with the largest list and index 0.
C8_Witness ==
  /\ calls # <<>> /\ calls[1].pc = "done"
  /\ Ready /\ highlights = Collection(MaxItems) /\ currentIndex = 0

\* C9: enabled without an API key: after the mount effect the error is the
\* missing-key message, loading is false and no request was ever issued.
C9_MissingKey ==
  (enabled /\ ~apiKey /\ phase # "premount") =>
     (error = MissingApiKey /\ ~loading /\ calls = <<>>)

\* C9 witness: the rendered overlay shows the missing-key message.
C9_Witness ==
  /\ enabled /\ ~apiKey /\ Rendered
  /\ error = MissingApiKey /\ ~ShowSpinner

\* C10: disabled: no request is ever issued and nothing is rendered; and the
\* overlay is rendered only when mounted, enabled and not dismissed.
C10_DisabledInert ==
  /\ ~enabled => (calls = <<>> /\ ~Rendered)
  /\ Rendered => (mounted /\ enabled /\ isVisible)

\* C10 witness: disabled, the mount effect has run and a navigation followed.
C10_Witness == ~enabled /\ phase = "mounted" /\ mounted /\ ~isVisible

\* C11: whenever the fetch state is Ready, currentIndex is an index of
\* highlights: 0 <= currentIndex < Len(highlights).
C11_IndexInRange == Ready => (0 <= currentIndex /\ currentIndex < Len(highlights))

\* C11 witness: Ready with the largest list, after a reselect picked its last
\* index.
C11_Witness ==
  /\ Ready /\ Len(highlights) = MaxItems /\ currentIndex = MaxItems - 1

\* C12: a refreshHighlight step taken in a state that is not Ready changes none
\* of highlights, currentIndex, loading and error.
C12_ReselectNoopUnlessReady ==
  [][(~Ready /\ refreshHighlight) =>
       (highlights' = highlights /\ currentIndex' = currentIndex
        /\ loading' = loading /\ error' = error)]_vars

\* C12 witness: the refresh button is there to be clicked while the request is
\* outstanding.
C12_Witness ==
  /\ Rendered /\ running = 0 /\ ~Ready /\ InFlight # {}
  /\ ENABLED refreshHighlight

\* C13: throughout the mounted lifetime, between handler runs, a
\* routeChangeStart is handled and hides a visible overlay, whatever the drag
\* and the fetch are doing; after a routeChangeStart step the overlay is not
\* visible.
C13_NavigationDismisses ==
  /\ []((phase = "mounted" /\ running = 0 /\ isVisible)
          => ENABLED <<RouteChangeStart>>_vars)
  /\ [][RouteChangeStart => (~isVisible' /\ ~Rendered')]_vars

\* C13 witness: the overlay is dismissed while a drag is tracked and the
\* request is outstanding.
C13_Witness ==
  /\ phase = "mounted" /\ ~isVisible /\ isDragging /\ InFlight # {}

\* C14 (as claimed): the window listeners are attached only while isDragging
\* is true; once isDragging is false, and after the unmount, no listener is
\* attached and no frame callback is scheduled.
C14_ListenerDiscipline ==
  /\ winListeners # {} => isDragging
  /\ ~isDragging => (winListeners = {} /\ frames = {})
  /\ phase = "unmounted" => (winListeners = {} /\ frames = {})

\* C17 (as claimed): a pointer-down of a mouse with a button other than the
\* left one changes nothing of the drag state; any other pointer-down sets
\* isDragging and sets dragOffset to the pointer position minus position; a
\* pointer-move while isDragging is false changes nothing and schedules nothing.
C17_PointerHandlers ==
  [][/\ \A t \in PointerTypes, b \in Buttons, p \in Points :
          PointerDown(t, b, p) =>
            IF t = "mouse" /\ b # 0
              THEN UNCHANGED <<isDragging, dragOffset, position, frames,
                               dragAnimationFrameRef>>
              ELSE /\ isDragging'
                   /\ dragOffset' = [x |-> p.x - position.x, y |-> p.y - position.y]
     /\ (~isDragging /\ \E p \in Points : PointerMove(p)) =>
          UNCHANGED <<position, frames, dragAnimationFrameRef, nextFrame>>]_vars

\* C15: once the state is Failed it stays Failed with the same error, whatever
\* step follows, and at most one request is issued.
C15_FailureTerminal ==
  /\ [](Len(calls) <= 1)
  /\ [][Failed => (Failed' /\ error' = error)]_vars

\* C15 witness: Failed after the one request ended, then a drag moved the
\* overlay and it was dismissed.
C15_Witness ==
  /\ Failed /\ Len(calls) = 1 /\ calls[1].pc = "done"
  /\ position # Origin /\ ~isVisible

\* C16: before the mount effects no request is issued; a request is issued
\* only with the mount flag set; with the feature enabled and a key the mount
\* effect issues exactly one request, for the whole lifetime.
C16_ActivateOnceAfterMount ==
  /\ phase = "premount" => (calls = <<>> /\ ~mounted)
  /\ calls # <<>> => (mounted /\ phase # "premount")
  /\ (phase # "premount" /\ enabled /\ apiKey) => Len(calls) = 1
  /\ Len(calls) <= 1

\* C16 witness: a whole lifetime with one request.
C16_Witness == phase = "unmounted" /\ Len(calls) = 1 /\ calls[1].pc = "done"

\* C18: a request that is outstanding leads to a state where none is, loading
\* is false and the state is Ready or Failed; and loading is false in every
\* state in which the continuation of the request has ended.
C18_FetchCompletes ==
  /\ (InFlight # {}) ~> (InFlight = {} /\ running = 0 /\ ~loading /\ (Ready \/ Failed))
  /\ []((calls # <<>> /\ \A c \in DOMAIN calls : calls[c].pc = "done") => ~loading)

\* C18 witness: the request was rejected by the network and the state is Failed.
C18_Witness ==
  /\ calls # <<>> /\ calls[1].pc = "done" /\ Failed /\ error = FetchRejected

\* C19: once Ready, no step changes highlights, and a step that changes
\* currentIndex is a refreshHighlight step.
C19_CollectionImmutable ==
  [][Ready => (highlights' = highlights
               /\ (currentIndex' # currentIndex => refreshHighlight))]_vars

\* C19 witness: Ready, a reselect changed the index, then the overlay was
\* dragged and dismissed.
C19_Witness ==
  /\ Ready /\ currentIndex # 0 /\ position # Origin /\ ~isVisible

\* C20: a close or routeChangeStart step leaves the fetch state and position,
\* isDragging, dragOffset and the frame ref alone; a refreshHighlight step
\* changes currentIndex at most; pointer-down, pointer-move, pointer-up and
\* frame steps leave isVisible and the fetch state alone; and position changes
\* only in a frame step.
C20_Independence ==
  [][/\ (RouteChangeStart \/ Dismiss) =>
          UNCHANGED <<highlights, currentIndex, loading, error, position,
                      isDragging, dragOffset, dragAnimationFrameRef>>
     /\ refreshHighlight =>
          UNCHANGED <<highlights, loading, error, isVisible, position,
                      isDragging, dragOffset, dragAnimationFrameRef>>
     /\ (\/ \E t \in PointerTypes, b \in Buttons, p \in Points : PointerDown(t, b, p)
         \/ \E p \in Points : PointerMove(p)
         \/ PointerUp
         \/ FrameFire) =>
          UNCHANGED <<isVisible, highlights, currentIndex, loading, error>>
     /\ position' # position => FrameFire]_vars

\* C20 witness: Ready with a reselected index, a drag being tracked, and the
\* overlay dismissed.
C20_Witness ==
  /\ Ready /\ currentIndex # 0 /\ isDragging /\ ~isVisible
====
